---- MODULE Spec2Model ----
(***************************************************************************)
(* reST docstring checker: check_docstrings walks the top-level statements *)
(* of a parsed module and accumulates (message, line) findings for every   *)
(* function whose docstring disagrees with its signature.                  *)
(*                                                                         *)
(* Python values are represented as follows.                               *)
(*   - an optional value (None or v) is the sequence <<>> or <<v>>;        *)
(*   - a parameter name, a documented name and a comment are sequences of  *)
(*     one-character strings, so that startswith and `in` are computed;    *)
(*   - a function name and a message are TLA+ strings, joined with \o.     *)
(***************************************************************************)
EXTENDS Naturals, Sequences, FiniteSets, TLC

(***************************************************************************)
(* Bounds of the checked input space.                                      *)
(***************************************************************************)
\* Longest list of positional parameters (node.args.args) of a declaration.
MaxArgs == 2
\* Most top-level statements in a module that has more than one.
MaxDecls == 2
\* Most file paths on the command line.
MaxFiles == 2

(***************************************************************************)
(* Strings                                                                 *)
(***************************************************************************)
None == <<>>

Some(v) == <<v>>

\* str.startswith
startswith(s, prefix) ==
    /\ Len(s) >= Len(prefix)
    /\ SubSeq(s, 1, Len(prefix)) = prefix

\* `sub in s` for two strings
Contains(sub, s) ==
    \E k \in 0..Len(s) :
        /\ k + Len(sub) <= Len(s)
        /\ SubSeq(s, k + 1, k + Len(sub)) = sub

Range(s) == {s[k] : k \in 1..Len(s)}

\* The elements of s at the positions in S, in the order of s.
RECURSIVE Pick(_, _)
Pick(s, S) ==
    IF s = <<>> THEN <<>>
    ELSE LET rest == Pick(Tail(s), {k - 1 : k \in S \ {1}})
         IN  IF 1 \in S THEN <<Head(s)>> \o rest ELSE rest

CHECK_NONE == <<"n", "o", "q", "a", "_", "d", "o", "c">>

(***************************************************************************)
(* docstring_errors.py                                                     *)
(***************************************************************************)
\* The value of each member: the text before and after its "{}" field.
DocstringError ==
    [ INVALID_RE_ST   |-> <<"Docstring is not valid reST in function ", "">>,
      NO_DOCSTRING    |-> <<"No docstring found in function ", "">>,
      NO_RETURN       |-> <<"No return docstring found in function ", "">>,
      PARAMS_MISMATCH |->
          <<"Docstring params do not match function params in function ", "">>,
      PARAMS_MISSING  |-> <<"Docstring params are missing in function ", "">> ]

ErrorTypes == DOMAIN DocstringError

get_docstring_error_message(error_type, function_name) ==
    DocstringError[error_type][1] \o function_name \o DocstringError[error_type][2]

(***************************************************************************)
(* The parsed module: ast nodes, docstring texts and comment tokens.       *)
(***************************************************************************)
ParamNames == << <<"x">>, <<"y">>, <<"z">> >>

VarargName == <<"a", "r", "g", "s">>

KwargName == <<"k", "w", "a", "r", "g", "s">>

\* The names a docstring may document: x, y, *args, **kwargs, kwargs.
DocNames ==
    << <<"x">>, <<"y">>, <<"*">> \o VarargName, <<"*", "*">> \o KwargName,
       KwargName >>

\* ast.arguments: args (the positional parameters), vararg and kwarg.
Arguments ==
    { [ args   |-> [k \in 1..n |-> [arg |-> ParamNames[k]]],
        vararg |-> va,
        kwarg  |-> kw ] :
      n \in 0..MaxArgs,
      va \in {None, Some([arg |-> VarargName])},
      kw \in {None, Some([arg |-> KwargName])} }

\* node.returns: no annotation, `None`, `"Foo"`, `u"Foo"` and `int`.
Constant(value, kind) == [class |-> "Constant", value |-> value, kind |-> kind]

Name(id) == [class |-> "Name", value |-> id, kind |-> None]

ReturnAnnotations ==
    { None,
      Some(Constant("None", None)),
      Some(Constant("'Foo'", None)),
      Some(Constant("'Foo'", Some("u"))),
      Some(Name("int")) }

\* The text of a docstring, described by what docstring_parser makes of it:
\* valid = FALSE is a text parse() rejects with ParseError.
Text(blank, valid, params, returns, raises) ==
    [ blank |-> blank, valid |-> valid, params |-> params,
      returns |-> returns, raises |-> raises ]

BlankText == Text(TRUE, TRUE, <<>>, None, <<>>)

InvalidText == Text(FALSE, FALSE, <<>>, None, <<>>)

DocstringReturns == Some([description |-> "Sum of integers."])

DocstringRaises == <<[type_name |-> "ValueError"]>>

RestTexts ==
    { Text(FALSE, TRUE, [k \in 1..Len(Pick(DocNames, S)) |->
                            [arg_name |-> Pick(DocNames, S)[k]]], r, e) :
      S \in SUBSET (1..Len(DocNames)),
      r \in {None, DocstringReturns},
      e \in {<<>>, DocstringRaises} }

Docstrings == {None, Some(BlankText), Some(InvalidText)} \cup {Some(t) : t \in RestTexts}

Node(type, name, lineno, args, returns, docstring) ==
    [ type |-> type, name |-> name, lineno |-> lineno, args |-> args,
      returns |-> returns, docstring |-> docstring ]

\* tokenize.TokenInfo of a comment: its text and its end (row, column).
TokenInfo(string, row) == [string |-> string, end |-> <<row, Len(string)>>]

Hash == <<"#", " ">>

CommentTexts ==
    { Hash \o CHECK_NONE,
      Hash \o <<"N", "O", "Q", "A", "_", "D", "O", "C">>,
      Hash \o <<"n", "o", "q", "a">> }

\* Files of one function, over every signature, annotation and docstring.
RichFiles ==
    { [ body |-> <<Node("FunctionDef", "test_fn", 1, a, r, d)>>,
        file_comments |-> <<>> ] :
      a \in Arguments, r \in ReturnAnnotations, d \in Docstrings }

\* A signature of n positional parameters and no variadic one.
Positional(n) ==
    [ args |-> [k \in 1..n |-> [arg |-> ParamNames[k]]],
      vararg |-> None, kwarg |-> None ]

\* A valid reST docstring documenting `names`.
Rest(names, returns, raises) ==
    Some(Text(FALSE, TRUE, [k \in 1..Len(names) |-> [arg_name |-> names[k]]],
              returns, raises))

Int == Some(Name("int"))

\* The statements of the files that hold several: a class, functions without
\* a docstring, with an invalid one, with an incomplete one, with an empty
\* one and with a complete one, and an async function.
SmallNodes(lineno) ==
    { Node("ClassDef", "C", lineno, Positional(0), None, None),
      Node("FunctionDef", "g", lineno, Positional(1), Int, None),
      Node("FunctionDef", "h", lineno, Positional(1), Int, Some(InvalidText)),
      Node("FunctionDef", "test_fn", lineno, Positional(2), Int,
           Rest(<<ParamNames[1]>>, None, <<>>)),
      Node("FunctionDef", "k", lineno, Positional(1), Int, Rest(<<>>, None, <<>>)),
      Node("FunctionDef", "ok", lineno, Positional(2), Int,
           Rest(<<ParamNames[1], ParamNames[2]>>, DocstringReturns, <<>>)),
      Node("AsyncFunctionDef", "test_fn", lineno, Positional(2), Int,
           Rest(<<ParamNames[1]>>, DocstringReturns, <<>>)) }

\* Statement k of such a file is on line k + 1; the file holds at most one
\* comment, on any line from 1 to the line after the last statement.
SmallBodies ==
    UNION { { [k \in 1..n |-> [f[k] EXCEPT !.lineno = k + 1]] :
              f \in [1..n -> SmallNodes(1)] } : n \in 1..MaxDecls }

SmallComments(body) ==
    {<<>>} \cup { <<TokenInfo(c, row)>> :
                  c \in CommentTexts, row \in 1..(Len(body) + 2) }

SmallFiles ==
    UNION { { [body |-> b, file_comments |-> c] : c \in SmallComments(b) } :
            b \in SmallBodies }

\* Files of one function with `# noqa_doc` on its line, over every signature
\* and docstring.
IgnoredFiles ==
    { [ body |-> <<Node("FunctionDef", "test_fn", 1, a, r, d)>>,
        file_comments |-> <<TokenInfo(Hash \o CHECK_NONE, 1)>> ] :
      a \in Arguments, r \in {None, Int}, d \in Docstrings }

Files == RichFiles \cup IgnoredFiles \cup SmallFiles

(***************************************************************************)
(* docstring_checker.py                                                    *)
(***************************************************************************)
\* str() of an optional string: str(None) is "None".
str(v) == IF v = None THEN "None" ELSE v[1]

_is_function_return_type_none(node) ==
    IF node.returns = None THEN TRUE
    ELSE /\ node.returns[1].class = "Constant"
         /\ str(node.returns[1].kind) = "None"

\* Variant: the comment may end on any line.
_ignore_this_function_any_line(node, comments) ==
    \E k \in 1..Len(comments) : Contains(CHECK_NONE, comments[k].string)

_ignore_this_function(node, comments) ==
    LET comments_on_this_line ==
            SelectSeq(comments, LAMBDA tokeninfo : tokeninfo.end[1] = node.lineno)
    IN  \E k \in 1..Len(comments_on_this_line) :
            Contains(CHECK_NONE, comments_on_this_line[k].string)

\* ast.get_docstring
get_docstring(node) == node.docstring

\* docstring_parser.parse raises ParseError on this text
ParseError(text) == ~text.valid

Finding(error_type, node) ==
    <<get_docstring_error_message(error_type, node.name), node.lineno>>

_check_docstring_params_missing(node, errors, no_params, is_at_least_one_undocumented_param) ==
    IF no_params /\ is_at_least_one_undocumented_param
    THEN Append(errors, Finding("PARAMS_MISSING", node))
    ELSE errors

\* Variant: only a documented name that is no parameter is a mismatch.
_check_docstring_function_params_mismatch_extra_only(node, errors, docstring_params, function_params) ==
    LET clean_docstring_params ==
            {docstring_param \in docstring_params :
                ~startswith(docstring_param, <<"*">>)}
        is_param_mismatch == ~(clean_docstring_params \subseteq function_params)
    IN  IF docstring_params # {} /\ is_param_mismatch
        THEN Append(errors, Finding("PARAMS_MISMATCH", node))
        ELSE errors

\* Variant: an empty documented set is compared too.
_check_docstring_function_params_mismatch_unguarded(node, errors, docstring_params, function_params) ==
    LET clean_docstring_params ==
            {docstring_param \in docstring_params :
                ~startswith(docstring_param, <<"*">>)}
    IN  IF function_params # clean_docstring_params
        THEN Append(errors, Finding("PARAMS_MISMATCH", node))
        ELSE errors

_check_docstring_function_params_mismatch(node, errors, docstring_params, function_params) ==
    LET clean_docstring_params ==
            {docstring_param \in docstring_params :
                ~startswith(docstring_param, <<"*">>)}
        is_param_mismatch == function_params # clean_docstring_params
    IN  IF docstring_params # {} /\ is_param_mismatch
        THEN Append(errors, Finding("PARAMS_MISMATCH", node))
        ELSE errors

\* Variant: the finding is put in front of the list.
_check_missing_docstring_return_prepend(node, errors, no_return, docstring) ==
    LET is_docstring_return_missing ==
            /\ ~_is_function_return_type_none(node)
            /\ docstring.returns = None
            /\ (docstring.params # <<>> \/ docstring.raises # <<>> \/ no_return)
    IN  IF is_docstring_return_missing
        THEN <<Finding("NO_RETURN", node)>> \o errors
        ELSE errors

_check_missing_docstring_return(node, errors, no_return, docstring) ==
    LET is_return_type_none == _is_function_return_type_none(node)
        docstring_params_or_raises_exists ==
            docstring.params # <<>> \/ docstring.raises # <<>>
        is_docstring_return_missing ==
            /\ ~is_return_type_none
            /\ docstring.returns = None
            /\ (docstring_params_or_raises_exists \/ no_return)
    IN  IF is_docstring_return_missing
        THEN Append(errors, Finding("NO_RETURN", node))
        ELSE errors

(***************************************************************************)
(* check_docstrings(file_path, disallow_no_docstring, disallow_no_params,  *)
(* disallow_no_return): the loop over module.body.                         *)
(***************************************************************************)
VARIABLES
    module,                 \* the parsed module; module.body is its statements
    file_comments,          \* the comment tokens of the file
    disallow_no_docstring,
    disallow_no_params,
    disallow_no_return,
    docstring_errors,       \* the findings so far, (message, line) pairs
    visited,                \* the statements of module.body the loop has taken
    pc                      \* "loop" inside the for loop, "done" once returned

\* The state of main() in __main__.py.
VARIABLES
    args,                   \* the parsed command line
    file_index,             \* the file paths the loop of main has taken
    return_value,
    stdout,                 \* the lines printed so far
    exit_code               \* None until sys.exit, then the exit status

main_vars == << args, file_index, return_value, stdout, exit_code >>

check_vars ==
    << module, file_comments, disallow_no_docstring, disallow_no_params,
       disallow_no_return, docstring_errors, visited, pc >>

vars ==
    << module, file_comments, disallow_no_docstring, disallow_no_params,
       disallow_no_return, docstring_errors, visited, pc, args, file_index,
       return_value, stdout, exit_code >>

\* check_docstrings called on its own, as the tests do: main is not running.
NoMain ==
    /\ args = [ file_paths |-> <<>>, strict |-> FALSE,
                disallow_no_docstring |-> FALSE, disallow_no_params |-> FALSE,
                disallow_no_return |-> FALSE ]
    /\ file_index = 0
    /\ return_value = 0
    /\ stdout = <<>>
    /\ exit_code = None

\* The state once parse_module_and_extract_comments has returned.
Init ==
    /\ \E file \in Files :
        /\ module = [body |-> file.body]
        /\ file_comments = file.file_comments
    /\ disallow_no_docstring \in BOOLEAN
    /\ disallow_no_params \in BOOLEAN
    /\ disallow_no_return \in BOOLEAN
    /\ docstring_errors = <<>>
    /\ visited = 0
    /\ pc = "loop"
    /\ NoMain

\* The statement the loop takes next.
node == module.body[visited + 1]

InLoop == pc = "loop" /\ visited < Len(module.body)

Continue(errors) ==
    /\ docstring_errors' = errors
    /\ visited' = visited + 1
    /\ UNCHANGED << module, file_comments, disallow_no_docstring,
                    disallow_no_params, disallow_no_return, pc >>
    /\ UNCHANGED main_vars

\* if not isinstance(node, ast.FunctionDef): continue
SkipNotFunctionDef ==
    /\ InLoop
    /\ node.type # "FunctionDef"
    /\ Continue(docstring_errors)

\* if _ignore_this_function(node, file_comments): continue
SkipIgnored ==
    /\ InLoop
    /\ node.type = "FunctionDef"
    /\ _ignore_this_function(node, file_comments)
    /\ Continue(docstring_errors)

Eligible ==
    /\ InLoop
    /\ node.type = "FunctionDef"
    /\ ~_ignore_this_function(node, file_comments)

\* `not docstring_node`: there is no docstring, or it is the empty string.
NoText(n) ==
    LET docstring_node == get_docstring(n)
    IN  IF docstring_node = None THEN TRUE ELSE docstring_node[1].blank

HasText(n) == ~NoText(n)

\* Variant: NO_DOCSTRING is reported whatever disallow_no_docstring is.
NoDocstringAlways ==
    /\ Eligible
    /\ NoText(node)
    /\ Continue(Append(docstring_errors, Finding("NO_DOCSTRING", node)))

\* if not docstring_node: report NO_DOCSTRING if asked to, then continue
NoDocstring ==
    /\ Eligible
    /\ NoText(node)
    /\ Continue(IF disallow_no_docstring
                THEN Append(docstring_errors, Finding("NO_DOCSTRING", node))
                ELSE docstring_errors)

\* Variant: ParseError is not caught and ends check_docstrings.
InvalidReSTRaises ==
    /\ Eligible
    /\ HasText(node)
    /\ ParseError(get_docstring(node)[1])
    /\ pc' = "raised"
    /\ UNCHANGED << module, file_comments, disallow_no_docstring,
                    disallow_no_params, disallow_no_return, docstring_errors,
                    visited >>
    /\ UNCHANGED main_vars

\* except ParseError: report INVALID_RE_ST, then continue
InvalidReST ==
    /\ Eligible
    /\ HasText(node)
    /\ ParseError(get_docstring(node)[1])
    /\ Continue(Append(docstring_errors, Finding("INVALID_RE_ST", node)))

\* The three checks of the docstring of n, which parsed: the findings after
\* them.
three_checks(n, errors, no_params, no_return) ==
    LET docstring == get_docstring(n)[1]
        function_params == {param.arg : param \in Range(n.args.args)}
        docstring_params == {param.arg_name : param \in Range(docstring.params)}
        is_at_least_one_undocumented_param ==
            Cardinality(function_params) > 0 /\ Cardinality(docstring_params) = 0
        e1 == _check_docstring_params_missing(
                  n, errors, no_params, is_at_least_one_undocumented_param)
        e2 == _check_docstring_function_params_mismatch(
                  n, e1, docstring_params, function_params)
    IN  _check_missing_docstring_return(n, e2, no_return, docstring)

\* The three checks of a docstring that parsed.
CheckDocstring ==
    /\ Eligible
    /\ HasText(node)
    /\ ~ParseError(get_docstring(node)[1])
    /\ Continue(three_checks(node, docstring_errors, disallow_no_params,
                             disallow_no_return))

\* return docstring_errors
Return ==
    /\ pc = "loop"
    /\ visited = Len(module.body)
    /\ pc' = "done"
    /\ UNCHANGED << module, file_comments, disallow_no_docstring,
                    disallow_no_params, disallow_no_return, docstring_errors,
                    visited >>
    /\ UNCHANGED main_vars

Next ==
    \/ SkipNotFunctionDef
    \/ SkipIgnored
    \/ NoDocstring
    \/ InvalidReST
    \/ CheckDocstring
    \/ Return

Spec == Init /\ [][Next]_vars

(***************************************************************************)
(* __main__.py: main() and the copy of check_docstrings it calls.  The copy *)
(* ends its messages with a full stop and compares the documented names    *)
(* with the parameters as written.                                         *)
(***************************************************************************)
main_DocstringError ==
    [ INVALID_RE_ST   |-> <<"Docstring is not valid reST in function ", ".">>,
      NO_DOCSTRING    |-> <<"No docstring found in function ", ".">>,
      NO_RETURN       |-> <<"No return docstring found in function ", ".">>,
      PARAMS_MISMATCH |->
          <<"Docstring params do not match function params in function ", ".">>,
      PARAMS_MISSING  |-> <<"Docstring params are missing in function ", ".">> ]

_get_docstring_error_message(error_type, function_name) ==
    main_DocstringError[error_type][1] \o function_name
        \o main_DocstringError[error_type][2]

main_Finding(error_type, n) ==
    <<_get_docstring_error_message(error_type, n.name), n.lineno>>

\* One pass of the loop of check_docstrings in __main__.py.
main_check_node(n, comments, errors, no_docstring, no_params, no_return) ==
    IF n.type # "FunctionDef" THEN errors
    ELSE IF _ignore_this_function(n, comments) THEN errors
    ELSE IF NoText(n)
    THEN IF no_docstring
         THEN Append(errors, main_Finding("NO_DOCSTRING", n))
         ELSE errors
    ELSE IF ParseError(get_docstring(n)[1])
    THEN Append(errors, main_Finding("INVALID_RE_ST", n))
    ELSE
      LET docstring == get_docstring(n)[1]
          function_params == {param.arg : param \in Range(n.args.args)}
          docstring_params == {param.arg_name : param \in Range(docstring.params)}
          is_at_least_one_undocumented_param ==
              Cardinality(function_params) > 0 /\ Cardinality(docstring_params) = 0
          e1 == IF no_params /\ is_at_least_one_undocumented_param
                THEN Append(errors, main_Finding("PARAMS_MISSING", n))
                ELSE errors
          is_param_mismatch == function_params # docstring_params
          e2 == IF docstring_params # {} /\ is_param_mismatch
                THEN Append(e1, main_Finding("PARAMS_MISMATCH", n))
                ELSE e1
          is_docstring_return_missing ==
              /\ ~_is_function_return_type_none(n)
              /\ docstring.returns = None
              /\ (docstring.params # <<>> \/ docstring.raises # <<>> \/ no_return)
      IN  IF is_docstring_return_missing
          THEN Append(e2, main_Finding("NO_RETURN", n))
          ELSE e2

RECURSIVE main_loop(_, _, _, _, _, _)
main_loop(body, comments, errors, no_docstring, no_params, no_return) ==
    IF body = <<>> THEN errors
    ELSE main_loop(Tail(body), comments,
                   main_check_node(Head(body), comments, errors,
                                   no_docstring, no_params, no_return),
                   no_docstring, no_params, no_return)

\* check_docstrings(file_path, ...) of __main__.py; file_path stands for the
\* parsed file it names.
main_check_docstrings(file_path, no_docstring, no_params, no_return) ==
    main_loop(file_path.body, file_path.file_comments, <<>>,
              no_docstring, no_params, no_return)

\* The files a path on the command line may name: one without findings, one
\* with findings only under the options, one with findings, an empty one.
MainFiles ==
    { [ path |-> "ok.py", file_comments |-> <<>>,
        body |-> <<Node("FunctionDef", "ok", 1, Positional(2), Int,
                        Rest(<<ParamNames[1], ParamNames[2]>>,
                             DocstringReturns, <<>>))>> ],
      [ path |-> "lax.py", file_comments |-> <<>>,
        body |-> <<Node("FunctionDef", "g", 1, Positional(1), Int, None),
                   Node("FunctionDef", "k", 3, Positional(1), Int,
                        Rest(<<>>, None, <<>>))>> ],
      [ path |-> "bad.py", file_comments |-> <<>>,
        body |-> <<Node("FunctionDef", "test_fn", 1, Positional(2), Int,
                        Rest(<<ParamNames[1]>>, None, <<>>))>> ],
      [ path |-> "empty.py", file_comments |-> <<>>, body |-> <<>> ] }

\* _get_parsed_args(): the file paths and the four store_true flags.
ParsedArgs ==
    UNION { [ file_paths : [1..n -> MainFiles], strict : BOOLEAN,
              disallow_no_docstring : BOOLEAN, disallow_no_params : BOOLEAN,
              disallow_no_return : BOOLEAN ] : n \in 0..MaxFiles }

\* check_docstrings is not running on its own.
NoCheck ==
    /\ module = [body |-> <<>>]
    /\ file_comments = <<>>
    /\ disallow_no_docstring = FALSE
    /\ disallow_no_params = FALSE
    /\ disallow_no_return = FALSE
    /\ docstring_errors = <<>>
    /\ visited = 0
    /\ pc = "main"

\* args = _get_parsed_args(); return_value = 0
MainInit ==
    /\ args \in ParsedArgs
    /\ file_index = 0
    /\ return_value = 0
    /\ stdout = <<>>
    /\ exit_code = None
    /\ NoCheck

\* print(f"{file_path}:{line_number}: {docstring_error}")
printed(file_path, error) ==
    file_path.path \o ":" \o ToString(error[2]) \o ": " \o error[1]

printed_lines(file_path, errors) ==
    [j \in 1..Len(errors) |-> printed(file_path, errors[j])]

\* Variant: return_value follows the last file only.
MainCheckFileLast ==
    /\ exit_code = None
    /\ file_index < Len(args.file_paths)
    /\ LET file_path == args.file_paths[file_index + 1]
           errors ==
               main_check_docstrings(
                   file_path,
                   args.strict \/ args.disallow_no_docstring,
                   args.strict \/ args.disallow_no_params,
                   args.strict \/ args.disallow_no_return)
       IN  /\ stdout' = stdout \o printed_lines(file_path, errors)
           /\ return_value' = IF errors # <<>> THEN 1 ELSE 0
    /\ file_index' = file_index + 1
    /\ UNCHANGED << args, exit_code >>
    /\ UNCHANGED check_vars

\* One pass of `for file_path in args.file_paths`.
MainCheckFile ==
    /\ exit_code = None
    /\ file_index < Len(args.file_paths)
    /\ LET file_path == args.file_paths[file_index + 1]
           errors ==
               main_check_docstrings(
                   file_path,
                   args.strict \/ args.disallow_no_docstring,
                   args.strict \/ args.disallow_no_params,
                   args.strict \/ args.disallow_no_return)
       IN  /\ stdout' = stdout \o printed_lines(file_path, errors)
           /\ return_value' = IF errors # <<>> THEN 1 ELSE return_value
    /\ file_index' = file_index + 1
    /\ UNCHANGED << args, exit_code >>
    /\ UNCHANGED check_vars

\* sys.exit(return_value)
MainExit ==
    /\ exit_code = None
    /\ file_index = Len(args.file_paths)
    /\ exit_code' = Some(return_value)
    /\ UNCHANGED << args, file_index, return_value, stdout >>
    /\ UNCHANGED check_vars

MainNext == MainCheckFile \/ MainExit

MainSpec == MainInit /\ [][MainNext]_vars

(***************************************************************************)
(* The vocabulary of the specification, used to state its claims.          *)
(***************************************************************************)
Body == module.body

Visited == 1..visited

Done == pc = "done"

DefaultOptions ==
    ~disallow_no_docstring /\ ~disallow_no_params /\ ~disallow_no_return

\* The findings that carry the line of statement k, in order.
FindingsOf(k) == SelectSeq(docstring_errors, LAMBDA f : f[2] = Body[k].lineno)

Emits(k, error_type) ==
    \E j \in 1..Len(FindingsOf(k)) : FindingsOf(k)[j] = Finding(error_type, Body[k])

\* A comment that ends on the declaration's line contains `noqa_doc`.
Suppressed(n) ==
    \E j \in 1..Len(file_comments) :
        /\ file_comments[j].end[1] = n.lineno
        /\ Contains(<<"n", "o", "q", "a", "_", "d", "o", "c">>, file_comments[j].string)

IsFunction(n) == n.type = "FunctionDef"

Checked(n) == IsFunction(n) /\ ~Suppressed(n)

NoDocstringText(n) ==
    IF n.docstring = None THEN TRUE ELSE n.docstring[1].blank

DialectViolation(n) ==
    IF NoDocstringText(n) THEN FALSE ELSE ~n.docstring[1].valid

\* A checked declaration whose docstring exists and parses.
Parsed(n) == Checked(n) /\ ~NoDocstringText(n) /\ ~DialectViolation(n)

\* F: the names of the formal parameters, variadic ones included.
FormalNames(n) ==
    {a.arg : a \in Range(n.args.args)}
        \cup {a.arg : a \in Range(n.args.vararg)}
        \cup {a.arg : a \in Range(n.args.kwarg)}

\* D: the documented names as written.
DocumentedNames(n) == {p.arg_name : p \in Range(n.docstring[1].params)}

\* strip: a leading `*` or `**` removed, any other name unchanged.
StripMarker(name) ==
    IF startswith(name, <<"*", "*">>) THEN SubSeq(name, 3, Len(name))
    ELSE IF startswith(name, <<"*">>) THEN SubSeq(name, 2, Len(name))
    ELSE name

StrippedNames(n) == {StripMarker(d) : d \in DocumentedNames(n)}

HasReturnDoc(n) == n.docstring[1].returns # None

HasRaisesDoc(n) == n.docstring[1].raises # <<>>

\* The return annotation is absent or the literal None.
NoneEquivalent(n) ==
    IF n.returns = None THEN TRUE
    ELSE n.returns[1].class = "Constant" /\ n.returns[1].value = "None"

(***************************************************************************)
(* Claims                                                                  *)
(***************************************************************************)
\* C1: for every checked declaration whose docstring exists and parses,
\* ParamsMismatch is emitted if and only if the documented set D is not
\* empty and strip(D) differs from the formal parameter names F.
C1_MismatchIffStrippedDiffers ==
    \A k \in Visited :
        Parsed(Body[k]) =>
            ( Emits(k, "PARAMS_MISMATCH")
                <=> /\ DocumentedNames(Body[k]) # {}
                    /\ StrippedNames(Body[k]) # FormalNames(Body[k]) )

\* C2: when every declared parameter, variadic ones included, is documented
\* with or without its marker, nothing else is documented and the return is
\* documented, the declaration has no finding.
C2_VariadicDocumentedEitherForm ==
    \A k \in Visited :
        ( /\ Parsed(Body[k])
          /\ StrippedNames(Body[k]) = FormalNames(Body[k])
          /\ HasReturnDoc(Body[k]) )
            => FindingsOf(k) = <<>>

\* C3: for every checked declaration whose docstring exists and parses,
\* NoReturn is emitted if and only if the annotation is not none-equivalent,
\* the docstring has no return description, and it documents a parameter or
\* a raised error or require_return is set.
C3_NoReturnIff ==
    \A k \in Visited :
        Parsed(Body[k]) =>
            ( Emits(k, "NO_RETURN")
                <=> /\ ~NoneEquivalent(Body[k])
                    /\ ~HasReturnDoc(Body[k])
                    /\ \/ DocumentedNames(Body[k]) # {}
                       \/ HasRaisesDoc(Body[k])
                       \/ disallow_no_return )

\* C4: for every checked declaration whose docstring exists and parses,
\* ParamsMissing is emitted if and only if the declaration has a formal
\* parameter (variadic names counted), documents none and require_params
\* is set.
C4_ParamsMissingIff ==
    \A k \in Visited :
        Parsed(Body[k]) =>
            ( Emits(k, "PARAMS_MISSING")
                <=> /\ FormalNames(Body[k]) # {}
                    /\ DocumentedNames(Body[k]) = {}
                    /\ disallow_no_params )

\* C5: a checked function with no docstring text has exactly the finding
\* MissingDocstring when require_docstring is set and no finding otherwise,
\* whatever require_params and require_return are.
C5_NoDocstringGate ==
    \A k \in Visited :
        ( Checked(Body[k]) /\ NoDocstringText(Body[k]) ) =>
            FindingsOf(k) =
                IF disallow_no_docstring
                THEN <<Finding("NO_DOCSTRING", Body[k])>>
                ELSE <<>>

C5_Witness ==
    /\ Done
    /\ disallow_no_docstring /\ disallow_no_params /\ disallow_no_return
    /\ \E k \in Visited :
        /\ Checked(Body[k]) /\ NoDocstringText(Body[k])
        /\ FormalNames(Body[k]) # {} /\ ~NoneEquivalent(Body[k])
        /\ FindingsOf(k) = <<Finding("NO_DOCSTRING", Body[k])>>

\* C6: a dialect violation does not stop check_docstrings: the declaration
\* gets exactly the finding InvalidDialect under every option combination,
\* and the step leaves the loop running on the next statement with
\* everything else as it was.
C6_DialectViolationRecovered ==
    /\ [](\A k \in Visited :
            ( Checked(Body[k]) /\ DialectViolation(Body[k]) ) =>
                FindingsOf(k) = <<Finding("INVALID_RE_ST", Body[k])>>)
    /\ [][ ( InLoop /\ Checked(node) /\ DialectViolation(node) ) =>
             /\ docstring_errors' =
                    Append(docstring_errors, Finding("INVALID_RE_ST", node))
             /\ visited' = visited + 1
             /\ pc' = "loop"
             /\ UNCHANGED << module, file_comments, disallow_no_docstring,
                             disallow_no_params, disallow_no_return >> ]_vars

C6_Witness ==
    /\ Done
    /\ Len(Body) >= 2
    /\ Checked(Body[1]) /\ DialectViolation(Body[1])
    /\ FindingsOf(1) = <<Finding("INVALID_RE_ST", Body[1])>>
    /\ Parsed(Body[2])
    /\ Emits(2, "PARAMS_MISMATCH") /\ Emits(2, "NO_RETURN")

\* C7: a function is left out of the findings if and only if a comment
\* ending on its own line contains `noqa_doc`: a suppressed declaration has
\* no finding under any options, and a function that is not suppressed and
\* has no docstring (with require_docstring) or an invalid one has one.
C7_SuppressedIffSameLineMarker ==
    \A k \in Visited :
        /\ Suppressed(Body[k]) => FindingsOf(k) = <<>>
        /\ ( /\ Checked(Body[k])
             /\ \/ NoDocstringText(Body[k]) /\ disallow_no_docstring
                \/ DialectViolation(Body[k]) )
               => FindingsOf(k) # <<>>

C7_Witness ==
    /\ Done
    /\ disallow_no_docstring
    /\ \E k \in Visited :
        /\ IsFunction(Body[k]) /\ Suppressed(Body[k])
        /\ NoDocstringText(Body[k])
        /\ FindingsOf(k) = <<>>

IsPrefix(a, b) == Len(a) <= Len(b) /\ SubSeq(b, 1, Len(a)) = a

\* The visited statement whose line finding j carries.
Owner(j) == CHOOSE k \in Visited : Body[k].lineno = docstring_errors[j][2]

\* The place of finding j in the check order of its declaration.
CheckRank(j) ==
    LET name == Body[Owner(j)].name
        message == docstring_errors[j][1]
    IN  IF message = get_docstring_error_message("PARAMS_MISSING", name) THEN 1
        ELSE IF message = get_docstring_error_message("PARAMS_MISMATCH", name) THEN 2
        ELSE IF message = get_docstring_error_message("NO_RETURN", name) THEN 3
        ELSE 0

\* C8: the findings are in declaration order and, within a declaration, in
\* check order; each carries the line and name of a visited declaration;
\* and a step never removes or reorders the findings already there.
C8_FindingsOrdered ==
    /\ [](\A j \in 1..Len(docstring_errors) :
            \E k \in Visited : \E t \in ErrorTypes :
                docstring_errors[j] = Finding(t, Body[k]))
    /\ [](\A j1, j2 \in 1..Len(docstring_errors) :
            j1 < j2 =>
                /\ Owner(j1) <= Owner(j2)
                /\ Owner(j1) = Owner(j2) => CheckRank(j1) < CheckRank(j2))
    /\ [][IsPrefix(docstring_errors, docstring_errors')]_vars

C8_Witness ==
    /\ Done
    /\ Len(Body) = 2
    /\ Len(FindingsOf(1)) = 2
    /\ Len(FindingsOf(2)) = 2
    /\ Len(docstring_errors) = 4

\* Scenario E: test_fn(x, y, **kwargs) documenting x, y, *args, **kwargs and
\* a return.
ScenarioE(n) ==
    /\ Parsed(n)
    /\ n.args = [Positional(2) EXCEPT !.kwarg = Some([arg |-> KwargName])]
    /\ DocumentedNames(n) = {DocNames[1], DocNames[2], DocNames[3], DocNames[4]}
    /\ HasReturnDoc(n)

\* C9: in scenario E with default options the declaration has exactly one
\* finding, ParamsMismatch.
C9_RedundantArgsIsMismatch ==
    \A k \in Visited :
        ( ScenarioE(Body[k]) /\ DefaultOptions ) =>
            FindingsOf(k) = <<Finding("PARAMS_MISMATCH", Body[k])>>

\* Scenario B: test_fn(x: int, y: int) -> int documenting only x and a return.
ScenarioB(n) ==
    /\ Parsed(n)
    /\ n.args = Positional(2)
    /\ n.returns = Int
    /\ DocumentedNames(n) = {DocNames[1]}
    /\ HasReturnDoc(n) /\ ~HasRaisesDoc(n)

OnlyRequireParams ==
    ~disallow_no_docstring /\ disallow_no_params /\ ~disallow_no_return

PartlyDocumented(n) ==
    /\ DocumentedNames(n) # {}
    /\ StrippedNames(n) \subseteq FormalNames(n)
    /\ StrippedNames(n) # FormalNames(n)

\* C11: with default options, a checked declaration that documents some but
\* not all of its parameters and a return has findings, and the first one
\* is ParamsMissing.
C11_PartlyDocumentedIsParamsMissing ==
    \A k \in Visited :
        ( /\ Parsed(Body[k])
          /\ PartlyDocumented(Body[k])
          /\ HasReturnDoc(Body[k])
          /\ DefaultOptions )
            => /\ FindingsOf(k) # <<>>
               /\ FindingsOf(k)[1] = Finding("PARAMS_MISSING", Body[k])

IsAsyncFunction(n) == n.type = "AsyncFunctionDef"

\* C12: an async function is checked like a synchronous one: with every
\* parameter and the return documented it has no finding, and
\* test_fn(x, y) -> int documenting only x and a return has at least one
\* finding with default options.
C12_AsyncCheckedLikeSync ==
    \A k \in Visited :
        ( IsAsyncFunction(Body[k]) /\ ~Suppressed(Body[k])
          /\ ~NoDocstringText(Body[k]) /\ ~DialectViolation(Body[k])
          /\ HasReturnDoc(Body[k]) /\ DefaultOptions )
            => /\ StrippedNames(Body[k]) = FormalNames(Body[k])
                   => FindingsOf(k) = <<>>
               /\ ( Body[k].args = Positional(2)
                    /\ DocumentedNames(Body[k]) = {DocNames[1]} )
                   => FindingsOf(k) # <<>>

\* The option main passes for a flag: true under --strict.
Passed(flag) == IF args.strict THEN TRUE ELSE flag

\* What check_docstrings returns for the k-th file path.
FindingsOfFile(k) ==
    main_check_docstrings(args.file_paths[k],
                          Passed(args.disallow_no_docstring),
                          Passed(args.disallow_no_params),
                          Passed(args.disallow_no_return))

\* `path:line: message` for every finding of the first k files, in order.
RECURSIVE OutputOfFiles(_)
OutputOfFiles(k) ==
    IF k = 0 THEN <<>>
    ELSE OutputOfFiles(k - 1) \o
         [ j \in 1..Len(FindingsOfFile(k)) |->
             args.file_paths[k].path \o ":" \o ToString(FindingsOfFile(k)[j][2])
                 \o ": " \o FindingsOfFile(k)[j][1] ]

StrictOutputOfLax ==
    << "lax.py:1: No docstring found in function g.",
       "lax.py:3: Docstring params are missing in function k.",
       "lax.py:3: No return docstring found in function k." >>

\* C13: main exits with 0 if and only if no file had a finding and with 1
\* otherwise; return_value never goes back from 1; the output is the line
\* `path:line: message` of every finding of every file taken, in order; and
\* under --strict a file gets the findings of all three options.
C13_MainExitStatus ==
    /\ [](exit_code # None =>
            exit_code =
                Some(IF \A k \in 1..Len(args.file_paths) : FindingsOfFile(k) = <<>>
                     THEN 0 ELSE 1))
    /\ [](return_value =
            IF \E k \in 1..file_index : FindingsOfFile(k) # <<>> THEN 1 ELSE 0)
    /\ [](stdout = OutputOfFiles(file_index))
    /\ []( ( args.strict /\ file_index >= 1
             /\ args.file_paths[1].path = "lax.py" ) =>
               SubSeq(stdout, 1, Len(StrictOutputOfLax)) = StrictOutputOfLax )
    /\ [][return_value = 1 => return_value' = 1]_vars

C13_Witness ==
    /\ exit_code = Some(1)
    /\ Len(args.file_paths) = 2
    /\ args.strict /\ ~args.disallow_no_docstring
    /\ args.file_paths[1].path = "lax.py"
    /\ args.file_paths[2].path = "ok.py"
    /\ stdout = StrictOutputOfLax

\* C14: the annotation counts as None if and only if it is absent or the
\* literal None, so a function with any other annotation, a documented
\* parameter and no return description gets NoReturn.
C14_NoneEquivalentIffAbsentOrNone ==
    \A k \in Visited :
        IsFunction(Body[k]) =>
            /\ _is_function_return_type_none(Body[k]) <=> NoneEquivalent(Body[k])
            /\ ( /\ Parsed(Body[k])
                 /\ ~NoneEquivalent(Body[k])
                 /\ DocumentedNames(Body[k]) # {}
                 /\ ~HasReturnDoc(Body[k]) )
                   => Emits(k, "NO_RETURN")

AllThree(errors, n) ==
    /\ Finding("PARAMS_MISSING", n) \in Range(errors)
    /\ Finding("PARAMS_MISMATCH", n) \in Range(errors)
    /\ Finding("NO_RETURN", n) \in Range(errors)

====
